---- MODULE Spec2Model ----
(***************************************************************************)
(* State-machine model of the vote accumulator of HotShot                  *)
(* (types/src/vote.rs): VoteAccumulator and its Accumulator::append.       *)
(*                                                                         *)
(* The accumulator is owned by one caller.  append takes it by value and   *)
(* hands it back only inside Either::Left; after Either::Right or a panic  *)
(* the instance is gone.  The variables keep the fields as they were when  *)
(* the call ended, and `live` says whether the caller still holds them.    *)
(*                                                                         *)
(* Stake sums are u64 in the source.  The sums of this model stay far      *)
(* below 2^64, so the additions are modelled without wrap-around.          *)
(*                                                                         *)
(* The second part models PushCdnNetwork of the testing build              *)
(* (crates/hotshot/src/traits/networking/push_cdn_network.rs): the pause   *)
(* flag, the three send operations and recv_msgs, against a client that    *)
(* is the environment.                                                     *)
(***************************************************************************)
EXTENDS Integers, Sequences, FiniteSets, Bags, TLC

\* Number of append calls explored on one accumulator (general envelope).
MaxAppends == 3

\* Number of append calls explored in the scenario envelope of the
\* specification's scenarios A and B (4 equal-weight signers, 3 and 2).
ScenarioAppends == 4

\* Number of steps explored on one PushCdnNetwork (network envelope).
MaxNetOps == 6

VARIABLES
    total_vote_outcomes,   \* VoteMap of every vote
    da_vote_outcomes,      \* VoteMap of the DA votes
    yes_vote_outcomes,     \* VoteMap of the Yes votes
    no_vote_outcomes,      \* VoteMap of the No votes
    success_threshold,     \* NonZeroU64, fixed at construction
    failure_threshold,     \* NonZeroU64, fixed at construction
    sig_lists,             \* Vec<Signature>: deserialized shares, arrival order
    signers,               \* BitVec: node_id -> bit
    stake_table,           \* the round's stake-table entries (passed as `entries`)
    live,                  \* the caller still owns the accumulator
    val,                   \* argument of the last append call
    result,                \* outcome of the last append call
    assemble_calls,        \* arguments of the assemble calls made by the last append
    votes,                 \* bag of the votes whose append returned (Left or Right)
    prev,                  \* the accumulator as the last append call received it
    outcomes,              \* subject and outcome of every append call, in call order
    nappends,              \* number of append calls made so far
    is_paused,             \* PushCdnNetwork.is_paused (Arc<AtomicBool>)
    recv_pending,          \* what client.receive_message() gave a recv_msgs
                           \* call that has not yet returned
    net_op,                \* the last network call that returned, its arguments
    net_result,            \* what that call returned
    send_pending,          \* a send call waiting for the client's send to end
    last_toggle,           \* the last of pause / resume that was called
    nskipped,              \* send calls that returned at the pause check
    nrecv,                 \* messages taken from the client so far
    delivered,             \* ids of the messages recv_msgs returned
    dropped,               \* ids of the messages taken and discarded while paused
    nops,                  \* number of network steps taken so far
    holder,                \* where the accumulator value is: with the round
                           \* driver, moved into an append call, or gone
    in_progress,           \* append calls begun and not yet ended
    in_call,               \* the argument of the append call in progress
    inbox                  \* votes delivered to the driver, not yet appended

accvars == <<total_vote_outcomes, da_vote_outcomes, yes_vote_outcomes,
             no_vote_outcomes, success_threshold, failure_threshold,
             sig_lists, signers, stake_table, live, val, result,
             assemble_calls, votes, prev, outcomes, nappends>>

netvars == <<is_paused, send_pending, recv_pending, net_op, net_result,
             last_toggle, nskipped, nrecv, delivered, dropped, nops>>

ownvars == <<holder, in_progress, in_call, inbox>>

vars == <<accvars, netvars, ownvars>>

----------------------------------------------------------------------------
\* Input domains

\* Commitment<LEAF>: the subjects voted on.
Commitments == {"H1", "H2"}

\* The variants of VoteData.
VoteKinds == {"DA", "Yes", "No", "Timeout", "ViewSync"}

\* EncodedSignature byte strings the signer at position i offers to append:
\* <<>> does not decode, the others decode to distinct shares; position 0
\* also offers a second, re-signed share.
EncodedSignatures(i) ==
    {<<>>, <<10 + i>>} \cup (IF i = 0 THEN {<<20>>} ELSE {})

\* Stake tables and threshold pairs <<success, failure>> an accumulator is
\* constructed with in the general envelope.
StakeTables == {<<1, 2>>}
ThresholdPairs == {<<3, 2>>, <<2, 3>>, <<2, 1>>}

\* EncodedPublicKey of the stake-table entry at position i.
KeyOf(i) == <<"pk", i>>

\* TOKEN: the vote token of the signer at position i; vote_count() is its weight.
TokenOf(table, i) == [count |-> IF i + 1 \in DOMAIN table THEN table[i + 1] ELSE 1]

vote_count(token) == token.count

\* deserialize with the fault of a default on failure (unwrap_or_default).
deserializeLenient(bytes) ==
    IF bytes = <<>> THEN [ok |-> TRUE, sig |-> 0]
    ELSE [ok |-> TRUE, sig |-> Head(bytes)]

\* bincode_opts().deserialize(&sig.0): Ok(signature) or Err.
deserialize(bytes) ==
    IF bytes = <<>> THEN [ok |-> FALSE, sig |-> 0]
    ELSE [ok |-> TRUE, sig |-> Head(bytes)]

\* An empty BTreeMap / HashMap.
EmptyMap == [x \in {} |-> 0]

\* The (0, BTreeMap::new()) of or_insert_with.
NewEntry == [stake |-> 0, map |-> EmptyMap]

----------------------------------------------------------------------------
\* VoteMap operations

\* HashMap::entry(commitment).or_insert_with(|| (0, BTreeMap::new())), read.
EntryOf(m, commitment) ==
    IF commitment \in DOMAIN m THEN m[commitment] ELSE NewEntry

\* HashMap::entry(commitment).or_insert_with(..): the entry exists afterwards.
OrInsert(m, commitment) ==
    [c \in DOMAIN m \cup {commitment} |-> EntryOf(m, c)]

\* BTreeMap::insert(key, value): insert or overwrite.
MapInsert(bm, key, value) ==
    [k \in DOMAIN bm \cup {key} |-> IF k = key THEN value ELSE bm[k]]

\* Cast with a guard against a repeated signer: the stake of a key that
\* already has an entry is not added again.
CastDedup(m, commitment, key, sig, vote_data, token) ==
    LET e == EntryOf(m, commitment) IN
    [c \in DOMAIN m \cup {commitment} |->
        IF c = commitment
        THEN [stake |-> IF key \in DOMAIN e.map THEN e.stake
                        ELSE e.stake + vote_count(token),
              map   |-> MapInsert(e.map, key,
                           [sig |-> sig, vote_data |-> vote_data, token |-> token])]
        ELSE m[c]]

\* Cast with one stake counter shared by the subjects: the weight is added to
\* the entry of every subject.
CastEverySubject(m, commitment, key, sig, vote_data, token) ==
    LET e == EntryOf(m, commitment) IN
    [c \in DOMAIN m \cup {commitment} |->
        IF c = commitment
        THEN [stake |-> e.stake + vote_count(token),
              map   |-> MapInsert(e.map, key,
                           [sig |-> sig, vote_data |-> vote_data, token |-> token])]
        ELSE [m[c] EXCEPT !.stake = @ + vote_count(token)]]

\* Cast with the fault `=` for `+=`: the stake is set to the vote's weight.
CastOverwrite(m, commitment, key, sig, vote_data, token) ==
    LET e == EntryOf(m, commitment) IN
    [c \in DOMAIN m \cup {commitment} |->
        IF c = commitment
        THEN [stake |-> vote_count(token),
              map   |-> MapInsert(e.map, key,
                           [sig |-> sig, vote_data |-> vote_data, token |-> token])]
        ELSE m[c]]

\* *stake_casted += u64::from(token.vote_count()); vote_map.insert(key, (sig, vote_data, token))
Cast(m, commitment, key, sig, vote_data, token) ==
    LET e == EntryOf(m, commitment) IN
    [c \in DOMAIN m \cup {commitment} |->
        IF c = commitment
        THEN [stake |-> e.stake + vote_count(token),
              map   |-> MapInsert(e.map, key,
                           [sig |-> sig, vote_data |-> vote_data, token |-> token])]
        ELSE m[c]]

\* HashMap::remove(&commitment)
MapRemove(m, commitment) ==
    [c \in DOMAIN m \ {commitment} |-> m[c]]

\* SetBit with the bit flipped instead of set: a re-vote clears it.
SetBitToggle(bits, node_id) == [bits EXCEPT ![node_id] = ~@]

\* SetBit with the fault of a fixed index: always the first bit.
SetBitFirst(bits, node_id) == [bits EXCEPT ![0] = TRUE]

\* BitVec::set(node_id, true)
SetBit(bits, node_id) == [bits EXCEPT ![node_id] = TRUE]

\* Push with the share put in front of the list.
PushFront(list, sig) == <<sig>> \o list

\* Vec::push(sig)
Push(list, sig) == Append(list, sig)

\* Number of one bits of a BitVec.
CountOnes(bits) == Cardinality({i \in DOMAIN bits : bits[i]})

RECURSIVE SumSeq(_)
SumSeq(s) == IF s = <<>> THEN 0 ELSE Head(s) + SumSeq(Tail(s))

\* QCParams with an off-by-one threshold.
QCParamsOffByOne(entries, threshold) ==
    [stake_entries |-> entries, threshold |-> threshold + 1]

\* QCParams { stake_entries: entries.clone(), threshold: success_threshold, agg_sig_pp: () }
QCParams(entries, threshold) == [stake_entries |-> entries, threshold |-> threshold]

\* BitvectorQuorumCertificate::assemble(&real_qc_pp, signers, &sig_lists[..]):
\* the aggregation capability.  Whether it returns Ok or Err is decided
\* outside this file (ok); an Ok value is the aggregate of the shares it was
\* given (their sum) together with the bitmask it was given.
assemble(qc_pp, bits, sigs, ok) ==
    IF ok THEN [ok |-> TRUE, sig |-> SumSeq(sigs), signers |-> bits]
    ELSE [ok |-> FALSE, sig |-> 0, signers |-> bits]

\* Decide with the No branch tested first.
DecideNoFirst(da_stake, yes_stake, no_stake, success, failure) ==
    IF no_stake >= failure THEN "No"
    ELSE IF da_stake >= success THEN "DA"
    ELSE IF yes_stake >= success THEN "Yes"
    ELSE "None"

\* Decide with `>` for `>=`.
DecideStrict(da_stake, yes_stake, no_stake, success, failure) ==
    IF da_stake > success THEN "DA"
    ELSE IF yes_stake > success THEN "Yes"
    ELSE IF no_stake > failure THEN "No"
    ELSE "None"

\* Decide with the no tally compared with success_threshold.
DecideNoUsesSuccess(da_stake, yes_stake, no_stake, success, failure) ==
    IF da_stake >= success THEN "DA"
    ELSE IF yes_stake >= success THEN "Yes"
    ELSE IF no_stake >= success THEN "No"
    ELSE "None"

\* The if / else-if chain over the category tallies: which certificate, if any.
Decide(da_stake, yes_stake, no_stake, success, failure) ==
    IF da_stake >= success THEN "DA"
    ELSE IF yes_stake >= success THEN "Yes"
    ELSE IF no_stake >= failure THEN "No"
    ELSE "None"

\* TotalReached with `>` for `>=`.
TotalReachedStrict(total_stake, success) == total_stake > success

\* TotalReached with the gate on the total left out.
TotalReachedAlways(total_stake, success) == TRUE

\* if *total_stake_casted >= u64::from(self.success_threshold)
TotalReached(total_stake, success) == total_stake >= success

----------------------------------------------------------------------------
\* Outcomes of one append call

NoQC == [ok |-> FALSE, sig |-> 0, signers |-> <<>>]

Left == [kind |-> "Left", tag |-> "Collecting", qc |-> NoQC]
Right(tag, qc) == [kind |-> "Right", tag |-> tag, qc |-> qc]
Panic(why) == [kind |-> "Panic", tag |-> why, qc |-> NoQC]
NoResult == [kind |-> "None", tag |-> "None", qc |-> NoQC]

\* The accumulator's fields as one value.
Self ==
    [total |-> total_vote_outcomes, da |-> da_vote_outcomes,
     yes |-> yes_vote_outcomes, no |-> no_vote_outcomes,
     sig_lists |-> sig_lists, signers |-> signers]

\* Dispatch with an empty No arm: a No vote is tallied in the total only.
DispatchDropNo(self, v) ==
    LET touched == [self EXCEPT !.da  = OrInsert(self.da, v.commitment),
                                !.yes = OrInsert(self.yes, v.commitment),
                                !.no  = OrInsert(self.no, v.commitment)]
        kind == v.vote_data.kind
    IN  IF kind = "DA"
        THEN [touched EXCEPT !.da =
                 Cast(touched.da, v.commitment, v.key, v.sig, v.vote_data, v.token)]
        ELSE IF kind = "Yes"
        THEN [touched EXCEPT !.yes =
                 Cast(touched.yes, v.commitment, v.key, v.sig, v.vote_data, v.token)]
        ELSE touched

\* Dispatch with the fault of a missing match: every category map takes the
\* vote.
DispatchEvery(self, v) ==
    [self EXCEPT
        !.da  = Cast(self.da, v.commitment, v.key, v.sig, v.vote_data, v.token),
        !.yes = Cast(self.yes, v.commitment, v.key, v.sig, v.vote_data, v.token),
        !.no  = Cast(self.no, v.commitment, v.key, v.sig, v.vote_data, v.token)]

\* The match on vote_data: the category map that also takes the vote, after
\* all four maps got their entry for the commitment.
Dispatch(self, v) ==
    LET touched == [self EXCEPT !.da  = OrInsert(self.da, v.commitment),
                                !.yes = OrInsert(self.yes, v.commitment),
                                !.no  = OrInsert(self.no, v.commitment)]
        kind == v.vote_data.kind
    IN  IF kind = "DA"
        THEN [touched EXCEPT !.da =
                 Cast(touched.da, v.commitment, v.key, v.sig, v.vote_data, v.token)]
        ELSE IF kind = "Yes"
        THEN [touched EXCEPT !.yes =
                 Cast(touched.yes, v.commitment, v.key, v.sig, v.vote_data, v.token)]
        ELSE IF kind = "No"
        THEN [touched EXCEPT !.no =
                 Cast(touched.no, v.commitment, v.key, v.sig, v.vote_data, v.token)]
        ELSE touched

\* Implemented with the Timeout and ViewSync arms empty instead of panicking.
ImplementedAll(kind) == TRUE

\* Whether the match arm of the vote's kind is implemented.
Implemented(kind) == kind \in {"DA", "Yes", "No"}

\* RemoveCertified with each certificate removing the entry of its own
\* category: the No certificate removes the no entry, not the total entry.
RemoveCertifiedOwn(self, tag, commitment) ==
    IF tag = "DA" THEN [self EXCEPT !.da = MapRemove(self.da, commitment)]
    ELSE IF tag = "Yes" THEN [self EXCEPT !.yes = MapRemove(self.yes, commitment)]
    ELSE IF tag = "No" THEN [self EXCEPT !.no = MapRemove(self.no, commitment)]
    ELSE self

\* The removal that goes with the certificate returned.
RemoveCertified(self, tag, commitment) ==
    IF tag = "DA" THEN [self EXCEPT !.da = MapRemove(self.da, commitment)]
    ELSE IF tag = "Yes" THEN [self EXCEPT !.yes = MapRemove(self.yes, commitment)]
    ELSE IF tag = "No" THEN [self EXCEPT !.total = MapRemove(self.total, commitment)]
    ELSE self

\* Conclude with assemble called before the gate on the total.
ConcludeAssembleFirst(self, v, success, failure, assemble_ok) ==
    LET c == v.commitment
        qc_pp == QCParams(v.entries, success)
        qc == assemble(qc_pp, self.signers, self.sig_lists, assemble_ok)
        call == [qc_pp |-> qc_pp, signers |-> self.signers, sigs |-> self.sig_lists,
                 ret |-> qc]
        tag == Decide(self.da[c].stake, self.yes[c].stake, self.no[c].stake,
                      success, failure)
    IN  IF ~qc.ok
        THEN [self |-> self, result |-> Panic("assemble"), calls |-> <<call>>]
        ELSE IF ~TotalReached(self.total[c].stake, success)
        THEN [self |-> self, result |-> Left, calls |-> <<call>>]
        ELSE IF tag = "None"
        THEN [self |-> self, result |-> Left, calls |-> <<call>>]
        ELSE [self |-> RemoveCertified(self, tag, c), result |-> Right(tag, qc),
              calls |-> <<call>>]

\* Conclude with the category tallies taken over all subjects instead of the
\* vote's subject.
ConcludeAnySubject(self, v, success, failure, assemble_ok) ==
    LET c == v.commitment
        qc_pp == QCParams(v.entries, success)
        qc == assemble(qc_pp, self.signers, self.sig_lists, assemble_ok)
        call == [qc_pp |-> qc_pp, signers |-> self.signers, sigs |-> self.sig_lists,
                 ret |-> qc]
        other == CHOOSE x \in Commitments : x # c
        tag == Decide(self.da[c].stake + EntryOf(self.da, other).stake,
                      self.yes[c].stake + EntryOf(self.yes, other).stake,
                      self.no[c].stake + EntryOf(self.no, other).stake,
                      success, failure)
    IN  IF ~TotalReached(self.total[c].stake, success)
        THEN [self |-> self, result |-> Left, calls |-> <<>>]
        ELSE IF ~qc.ok
        THEN [self |-> self, result |-> Panic("assemble"), calls |-> <<call>>]
        ELSE IF tag = "None"
        THEN [self |-> self, result |-> Left, calls |-> <<call>>]
        ELSE [self |-> RemoveCertified(self, tag, c), result |-> Right(tag, qc),
              calls |-> <<call>>]

\* Conclude with an off-by-one slice: assemble is given &self.sig_lists[1..].
ConcludeSliceFromOne(self, v, success, failure, assemble_ok) ==
    LET c == v.commitment
        qc_pp == QCParams(v.entries, success)
        sigs == IF self.sig_lists = <<>> THEN <<>> ELSE Tail(self.sig_lists)
        qc == assemble(qc_pp, self.signers, sigs, assemble_ok)
        call == [qc_pp |-> qc_pp, signers |-> self.signers, sigs |-> sigs,
                 ret |-> qc]
        tag == Decide(self.da[c].stake, self.yes[c].stake, self.no[c].stake,
                      success, failure)
    IN  IF ~TotalReached(self.total[c].stake, success)
        THEN [self |-> self, result |-> Left, calls |-> <<>>]
        ELSE IF ~qc.ok
        THEN [self |-> self, result |-> Panic("assemble"), calls |-> <<call>>]
        ELSE IF tag = "None"
        THEN [self |-> self, result |-> Left, calls |-> <<call>>]
        ELSE [self |-> RemoveCertified(self, tag, c), result |-> Right(tag, qc),
              calls |-> <<call>>]

\* Conclude with the result of assemble used unchecked (no unwrap).
ConcludeUnchecked(self, v, success, failure, assemble_ok) ==
    LET c == v.commitment
        qc_pp == QCParams(v.entries, success)
        qc == assemble(qc_pp, self.signers, self.sig_lists, assemble_ok)
        call == [qc_pp |-> qc_pp, signers |-> self.signers, sigs |-> self.sig_lists,
                 ret |-> qc]
        tag == Decide(self.da[c].stake, self.yes[c].stake, self.no[c].stake,
                      success, failure)
    IN  IF ~TotalReached(self.total[c].stake, success)
        THEN [self |-> self, result |-> Left, calls |-> <<>>]
        ELSE IF tag = "None"
        THEN [self |-> self, result |-> Left, calls |-> <<call>>]
        ELSE [self |-> RemoveCertified(self, tag, c), result |-> Right(tag, qc),
              calls |-> <<call>>]

\* The body of append from the threshold check on: self is the accumulator
\* after the tallies were updated.
Conclude(self, v, success, failure, assemble_ok) ==
    LET c == v.commitment
        qc_pp == QCParams(v.entries, success)
        qc == assemble(qc_pp, self.signers, self.sig_lists, assemble_ok)
        call == [qc_pp |-> qc_pp, signers |-> self.signers, sigs |-> self.sig_lists,
                 ret |-> qc]
        tag == Decide(self.da[c].stake, self.yes[c].stake, self.no[c].stake,
                      success, failure)
    IN  IF ~TotalReached(self.total[c].stake, success)
        THEN [self |-> self, result |-> Left, calls |-> <<>>]
        ELSE IF ~qc.ok
        THEN [self |-> self, result |-> Panic("assemble"), calls |-> <<call>>]
        ELSE IF tag = "None"
        THEN [self |-> self, result |-> Left, calls |-> <<call>>]
        ELSE [self |-> RemoveCertified(self, tag, c), result |-> Right(tag, qc),
              calls |-> <<call>>]

\* VoteAccumulator::append(self, val) as a function of the accumulator and
\* the argument: the fields when the call ends, its outcome and the assemble
\* calls it made.
AppendOutcome(self, v, success, failure, assemble_ok) ==
    LET d == deserialize(v.sig) IN
    IF ~d.ok
    THEN [self |-> self, result |-> Panic("deserialize"), calls |-> <<>>]
    ELSE IF v.node_id \notin DOMAIN self.signers
    THEN [self |-> self, result |-> Panic("index"), calls |-> <<>>]
    ELSE
        LET s1 == [self EXCEPT !.signers = SetBit(self.signers, v.node_id),
                               !.sig_lists = Push(self.sig_lists, d.sig)]
            s2 == [s1 EXCEPT !.total =
                      Cast(s1.total, v.commitment, v.key, v.sig, v.vote_data, v.token)]
            s3 == Dispatch(s2, v)
        IN  IF ~Implemented(v.vote_data.kind)
            THEN [self |-> s3, result |-> Panic("unimplemented"), calls |-> <<>>]
            ELSE Conclude(s3, v, success, failure, assemble_ok)

----------------------------------------------------------------------------
\* The arguments of append

\* The tuple (commitment, (key, (sig, entry, entries, node_id, vote_data, token)))
\* of a vote of the signer at stake-table position node_id.
Val(table, commitment, node_id, sig, kind) ==
    [commitment |-> commitment,
     key        |-> KeyOf(node_id),
     sig        |-> sig,
     entry      |-> IF node_id + 1 \in DOMAIN table THEN table[node_id + 1] ELSE 0,
     entries    |-> table,
     node_id    |-> node_id,
     vote_data  |-> [kind |-> kind, commit |-> commitment],
     token      |-> TokenOf(table, node_id)]

NoVal == Val(<<>>, "H1", 0, <<>>, "DA")

\* The vote as kept in the bag of returned appends.
Ballot(v) ==
    [commitment |-> v.commitment, node_id |-> v.node_id, sig |-> v.sig,
     kind |-> v.vote_data.kind, count |-> vote_count(v.token)]

----------------------------------------------------------------------------
\* PushCdnNetwork: values

\* Message<TYPES> values handed to the send operations; "unserializable" is
\* one that Serializer::serialize rejects.
Messages == {"m1", "unserializable"}

\* TYPES::SignatureKey values.
SignatureKeys == {"k1", "k2"}

\* The recipients sets passed to the broadcast operations.
RecipientSets == {{}, {"k1"}}

\* VERSION_0_1: major 0, minor 1.
VERSION_0_1 == <<0, 1>>

\* A serialized message whose version cannot be read.
NoBytes == [version |-> <<>>, body |-> <<>>]

\* Serializer::<Ver>::serialize: the version, then the bincode of the message.
Serialize(ver, message) ==
    IF message = "unserializable"
    THEN [ok |-> FALSE, bytes |-> NoBytes]
    ELSE [ok |-> TRUE,
          bytes |-> [version |-> ver, body |-> <<"bincode", message>>]]

\* Version::deserialize: reads the version the bytes start with.
VersionDeserialize(bytes) ==
    IF Len(bytes.version) = 2
    THEN [ok |-> TRUE, version |-> bytes.version]
    ELSE [ok |-> FALSE, version |-> <<>>]

\* Serializer::<Version01>::deserialize: the message the body is the bincode of.
Deserialize(bytes) ==
    IF Len(bytes.body) = 2 /\ bytes.body[1] = "bincode"
    THEN [ok |-> TRUE, message |-> bytes.body[2]]
    ELSE [ok |-> FALSE, message |-> "-"]

\* The byte strings that arrive: unreadable version, version 0.1 with a good
\* and with a broken body, and another version.
Payloads ==
    {NoBytes,
     [version |-> VERSION_0_1, body |-> <<"bincode", "m1">>],
     [version |-> VERSION_0_1, body |-> <<"garbage">>],
     [version |-> <<0, 2>>, body |-> <<"bincode", "m1">>]}

\* What client.receive_message() can give: an error, a Broadcast or Direct
\* carrying a payload, or another PushCdnMessage variant.  id numbers the
\* messages in the order the client gave them.
Items(id) ==
    {[id |-> id, res |-> "Err", kind |-> "-", payload |-> NoBytes],
     [id |-> id, res |-> "Ok", kind |-> "Other", payload |-> NoBytes]}
    \cup {[id |-> id, res |-> "Ok", kind |-> k, payload |-> b] :
             k \in {"Broadcast", "Direct"}, b \in Payloads}

NoItem == [id |-> 0, res |-> "-", kind |-> "-", payload |-> NoBytes]

\* Result<_, NetworkError> values: Ok(()) and Ok(vec![]) are NetOk(<<>>).
NetOk(msgs) == [ok |-> TRUE, err |-> "-", msgs |-> msgs]

NetErr(e) == [ok |-> FALSE, err |-> e, msgs |-> <<>>]

NoNetResult == [ok |-> FALSE, err |-> "none", msgs |-> <<>>]

SendOps == {"broadcast_message", "da_broadcast_message", "direct_message"}

\* A network call: its name and arguments, the last of pause / resume called
\* when it read is_paused, the send calls it made on the client, the item
\* the client gave it.
NetOp(name, message, recipients, recipient, toggle, calls, item) ==
    [name |-> name, message |-> message, recipients |-> recipients,
     recipient |-> recipient, toggle |-> toggle, handed |-> calls,
     item |-> item]

NoOp == NetOp("none", "-", {}, "-", "none", <<>>, NoItem)

----------------------------------------------------------------------------
\* PushCdnNetwork: the steps of the operations

\* The pause check of a build without the hotshot-testing feature.
IsPausedRelease(flag) == FALSE

\* self.is_paused.load(Ordering::Relaxed) of the testing build.
IsPaused(flag) == flag

\* Both broadcast operations publishing to Topic::Global.
BroadcastTopicGlobal(name) == "Global"

\* The topic each ConnectedNetwork broadcast operation passes on.
BroadcastTopic(name) ==
    IF name = "da_broadcast_message" THEN "DA" ELSE "Global"

\* The call on the client: send_broadcast_message(vec![topic], bytes) or
\* send_direct_message(&WrappedSignatureKey(recipient), bytes); ret is what
\* the client answers, "pending" until it does.
ClientCall(name, recipient, bytes) ==
    IF name = "direct_message"
    THEN [fn |-> "send_direct_message", topics |-> <<>>,
          recipient |-> recipient, bytes |-> bytes, ret |-> "pending"]
    ELSE [fn |-> "send_broadcast_message",
          topics |-> <<BroadcastTopic(name)>>,
          recipient |-> "-", bytes |-> bytes, ret |-> "pending"]

\* The call with the client's answer filled in.
Answered(call, send_ok) ==
    [call EXCEPT !.ret = IF send_ok THEN "Ok" ELSE "Err"]

\* SendOutcome without the pause check: the flag is never read.
SendOutcomeUnchecked(paused, name, message, recipient, ver) ==
    LET ser == Serialize(ver, message)
    IN  IF ~ser.ok
        THEN [done |-> TRUE, skipped |-> FALSE,
              result |-> NetErr("FailedToSerialize"), handed |-> <<>>]
        ELSE [done |-> FALSE, skipped |-> FALSE, result |-> NoNetResult,
              handed |-> <<ClientCall(name, recipient, ser.bytes)>>]

\* A send operation up to the await of the client's send: it returns at once
\* when paused or when serialization fails, else it hands one message over.
SendOutcome(paused, name, message, recipient, ver) ==
    IF IsPaused(paused)
    THEN [done |-> TRUE, skipped |-> TRUE, result |-> NetOk(<<>>),
          handed |-> <<>>]
    ELSE LET ser == Serialize(ver, message)
         IN  IF ~ser.ok
             THEN [done |-> TRUE, skipped |-> FALSE,
                   result |-> NetErr("FailedToSerialize"), handed |-> <<>>]
             ELSE [done |-> FALSE, skipped |-> FALSE, result |-> NoNetResult,
                   handed |-> <<ClientCall(name, recipient, ser.bytes)>>]

\* What a send operation returns once the client's send has ended.
SendResult(send_ok) ==
    IF send_ok THEN NetOk(<<>>) ELSE NetErr("CouldNotDeliver")

\* RecvOutcome without the comparison of the version: a payload of any
\* readable version is deserialized.
RecvOutcomeAnyVersion(paused, item) ==
    IF IsPaused(paused) THEN NetOk(<<>>)
    ELSE IF item.res = "Err" THEN NetErr("PushCdnNetwork::FailedToReceive")
    ELSE IF item.kind \notin {"Broadcast", "Direct"} THEN NetOk(<<>>)
    ELSE LET message_version == VersionDeserialize(item.payload)
         IN  IF ~message_version.ok THEN NetErr("FailedToDeserialize")
             ELSE LET res == Deserialize(item.payload)
                  IN  IF res.ok THEN NetOk(<<res.message>>)
                      ELSE NetErr("FailedToDeserialize")

\* recv_msgs after client.receive_message() gave item.
RecvOutcome(paused, item) ==
    IF IsPaused(paused) THEN NetOk(<<>>)
    ELSE IF item.res = "Err" THEN NetErr("PushCdnNetwork::FailedToReceive")
    ELSE IF item.kind \notin {"Broadcast", "Direct"} THEN NetOk(<<>>)
    ELSE LET message_version == VersionDeserialize(item.payload)
         IN  IF ~message_version.ok THEN NetErr("FailedToDeserialize")
             ELSE IF message_version.version = VERSION_0_1
             THEN LET res == Deserialize(item.payload)
                  IN  IF res.ok THEN NetOk(<<res.message>>)
                      ELSE NetErr("FailedToDeserialize")
             ELSE NetErr("FailedToDeserialize")

\* PushCdnNetwork::new: starts unpaused, nothing in flight.
NetInit ==
    /\ is_paused = FALSE
    /\ send_pending = NoOp
    /\ recv_pending = NoItem
    /\ net_op = NoOp
    /\ net_result = NoNetResult
    /\ last_toggle = "none"
    /\ nskipped = 0
    /\ nrecv = 0
    /\ delivered = {}
    /\ dropped = {}
    /\ nops = 0

----------------------------------------------------------------------------
\* The state machine

\* Owns with append reached through a shared handle (&self behind an Arc):
\* whoever has the handle can call.
OwnsShared(h) == TRUE

\* fn append(mut self, ..): the caller passes the accumulator by value, so it
\* must hold it.
Owns(h) == h = "driver"

\* The round driver holds the new accumulator; no call, no vote waiting.
OwnInit ==
    /\ holder = "driver"
    /\ in_progress = 0
    /\ in_call = NoVal
    /\ inbox = {}

\* VoteAccumulator { .. } as constructed: empty maps, no signer, no share.
InitWith(table, thresholds) ==
    /\ total_vote_outcomes = EmptyMap
    /\ da_vote_outcomes = EmptyMap
    /\ yes_vote_outcomes = EmptyMap
    /\ no_vote_outcomes = EmptyMap
    /\ success_threshold = thresholds[1]
    /\ failure_threshold = thresholds[2]
    /\ sig_lists = <<>>
    /\ signers = [i \in 0 .. Len(table) - 1 |-> FALSE]
    /\ stake_table = table
    /\ live = TRUE
    /\ val = NoVal
    /\ result = NoResult
    /\ assemble_calls = <<>>
    /\ votes = EmptyBag
    /\ prev = Self
    /\ outcomes = <<>>
    /\ nappends = 0
    /\ NetInit
    /\ OwnInit

Init == \E table \in StakeTables, thresholds \in ThresholdPairs :
            InitWith(table, thresholds)

\* HandsBack with append borrowing the accumulator (&mut self): the caller
\* keeps it whenever the call returns.
HandsBackBorrowed(res) == res.kind # "Panic"

\* Either::Left(self) hands the accumulator back to the caller; Either::Right
\* and a panic do not.
HandsBack(res) == res.kind = "Left"

\* The effect of one append call on the accumulator it was given.
Apply(v, assemble_ok) ==
    LET out == AppendOutcome(Self, v, success_threshold, failure_threshold,
                             assemble_ok)
    IN  /\ live
        /\ total_vote_outcomes' = out.self.total
        /\ da_vote_outcomes' = out.self.da
        /\ yes_vote_outcomes' = out.self.yes
        /\ no_vote_outcomes' = out.self.no
        /\ sig_lists' = out.self.sig_lists
        /\ signers' = out.self.signers
        /\ live' = HandsBack(out.result)
        /\ val' = v
        /\ result' = out.result
        /\ assemble_calls' = out.calls
        /\ votes' = IF out.result.kind \in {"Left", "Right"}
                    THEN votes (+) SetToBag({Ballot(v)})
                    ELSE votes
        /\ prev' = Self
        /\ outcomes' = Append(outcomes,
               [commitment |-> v.commitment, kind |-> out.result.kind,
                tag |-> out.result.tag])
        /\ nappends' = nappends + 1
        /\ UNCHANGED <<success_threshold, failure_threshold, stake_table>>

\* Where the accumulator is once a call has ended with res.
HolderAfter(res) == IF HandsBack(res) THEN "driver" ELSE "none"

\* One call of append on the accumulator the caller holds, from call to
\* return.
append(v, assemble_ok) ==
    /\ Owns(holder)
    /\ Apply(v, assemble_ok)
    /\ holder' = HolderAfter(result')
    /\ UNCHANGED <<in_progress, in_call, inbox>>
    /\ UNCHANGED netvars

\* The votes offered in the general envelope: any subject, any stake-table
\* position and the first position past the table, any byte string, any kind.
Vals ==
    UNION {{Val(stake_table, c, i, s, k) : s \in EncodedSignatures(i)} :
        c \in Commitments, i \in 0 .. Len(stake_table), k \in VoteKinds}

Next ==
    /\ nappends < MaxAppends
    /\ \E v \in Vals, assemble_ok \in BOOLEAN : append(v, assemble_ok)

Spec == Init /\ [][Next]_vars

----------------------------------------------------------------------------
\* The scenario envelope: a stake table of 4 equal-weight signers,
\* success_threshold 3 and failure_threshold 2, votes of the supported kinds
\* on subject H1, each signer sending its own well-formed share, and an
\* aggregation that succeeds.

InitScenario == InitWith(<<1, 1, 1, 1>>, <<3, 2>>)

ScenarioVals ==
    {Val(stake_table, "H1", i, <<10 + i>>, k) :
        i \in 0 .. Len(stake_table) - 1, k \in {"DA", "Yes", "No"}}

NextScenario ==
    /\ nappends < ScenarioAppends
    /\ \E v \in ScenarioVals : append(v, TRUE)

SpecScenario == InitScenario /\ [][NextScenario]_vars

----------------------------------------------------------------------------
\* The network envelope: one PushCdnNetwork of the testing build, used by
\* callers that pause and resume it, send on it, and by one task that calls
\* recv_msgs.  A send operation and recv_msgs each hold one await of the
\* client, so each takes two steps and the other operations run in between.

InitNet == InitWith(<<1, 2>>, <<3, 2>>)

\* A network step: counts the step and leaves the accumulator alone.
NetStep ==
    /\ nops < MaxNetOps
    /\ nops' = nops + 1
    /\ UNCHANGED accvars
    /\ UNCHANGED ownvars

\* fn pause(&self)
pause ==
    /\ NetStep
    /\ is_paused' = TRUE
    /\ last_toggle' = "pause"
    /\ net_op' = NetOp("pause", "-", {}, "-", "pause", <<>>, NoItem)
    /\ net_result' = NetOk(<<>>)
    /\ UNCHANGED <<send_pending, recv_pending, nskipped, nrecv, delivered,
                   dropped>>

\* fn resume(&self)
resume ==
    /\ NetStep
    /\ is_paused' = FALSE
    /\ last_toggle' = "resume"
    /\ net_op' = NetOp("resume", "-", {}, "-", "resume", <<>>, NoItem)
    /\ net_result' = NetOk(<<>>)
    /\ UNCHANGED <<send_pending, recv_pending, nskipped, nrecv, delivered,
                   dropped>>

\* A send operation from its call to its return or to the await of the
\* client's send.
SendStart(name, message, recipients, recipient, ver) ==
    LET out == SendOutcome(is_paused, name, message, recipient, ver)
        op == NetOp(name, message, recipients, recipient, last_toggle,
                    out.handed, NoItem)
    IN  /\ NetStep
        /\ send_pending = NoOp
        /\ IF out.done
           THEN /\ net_op' = op
                /\ net_result' = out.result
                /\ UNCHANGED send_pending
           ELSE /\ send_pending' = op
                /\ UNCHANGED <<net_op, net_result>>
        /\ nskipped' = IF out.skipped THEN nskipped + 1 ELSE nskipped
        /\ UNCHANGED <<is_paused, recv_pending, last_toggle, nrecv,
                       delivered, dropped>>

\* ConnectedNetwork::broadcast_message(message, _recipients, bind_version)
broadcast_message(message, recipients, bind_version) ==
    SendStart("broadcast_message", message, recipients, "-", bind_version)

\* ConnectedNetwork::da_broadcast_message(message, _recipients, bind_version)
da_broadcast_message(message, recipients, bind_version) ==
    SendStart("da_broadcast_message", message, recipients, "-", bind_version)

\* ConnectedNetwork::direct_message(message, recipient, _)
direct_message(message, recipient, bind_version) ==
    SendStart("direct_message", message, {}, recipient, bind_version)

\* The client's send ends and the send operation returns.
send_returns(send_ok) ==
    /\ NetStep
    /\ send_pending # NoOp
    /\ net_op' = [send_pending EXCEPT
                      !.handed = <<Answered(send_pending.handed[1], send_ok)>>]
    /\ net_result' = SendResult(send_ok)
    /\ send_pending' = NoOp
    /\ UNCHANGED <<is_paused, recv_pending, last_toggle, nskipped, nrecv,
                   delivered, dropped>>

\* recv_msgs is called and client.receive_message() gives item.
receive_message(item) ==
    /\ NetStep
    /\ recv_pending = NoItem
    /\ recv_pending' = item
    /\ nrecv' = nrecv + 1
    /\ UNCHANGED <<is_paused, send_pending, net_op, net_result, last_toggle,
                   nskipped, delivered, dropped>>

\* recv_msgs goes on after the await and returns.
recv_msgs ==
    LET out == RecvOutcome(is_paused, recv_pending)
    IN  /\ NetStep
        /\ recv_pending # NoItem
        /\ net_op' = NetOp("recv_msgs", "-", {}, "-", last_toggle, <<>>,
                           recv_pending)
        /\ net_result' = out
        /\ recv_pending' = NoItem
        /\ delivered' = IF out.msgs # <<>>
                        THEN delivered \cup {recv_pending.id}
                        ELSE delivered
        /\ dropped' = IF is_paused
                      THEN dropped \cup {recv_pending.id}
                      ELSE dropped
        /\ UNCHANGED <<is_paused, send_pending, last_toggle, nskipped, nrecv>>

NextNet ==
    \/ pause
    \/ resume
    \/ \E message \in Messages, recipients \in RecipientSets :
           broadcast_message(message, recipients, VERSION_0_1)
    \/ \E message \in Messages, recipients \in RecipientSets :
           da_broadcast_message(message, recipients, VERSION_0_1)
    \/ \E message \in Messages, recipient \in SignatureKeys :
           direct_message(message, recipient, VERSION_0_1)
    \/ \E send_ok \in BOOLEAN : send_returns(send_ok)
    \/ \E item \in Items(nrecv + 1) : receive_message(item)
    \/ recv_msgs

SpecNet == InitNet /\ [][NextNet]_vars

----------------------------------------------------------------------------
\* The owner envelope: producers deliver votes to the round driver at any
\* time, also while an append call runs; the driver passes the accumulator
\* by value into each call and has it again only if the call hands it back.

InitOwner == \E thresholds \in ThresholdPairs : InitWith(<<1, 2>>, thresholds)

\* The votes the producers deliver: one subject, each signer's own share, two
\* supported kinds and one that is not.
OwnerVals ==
    {Val(stake_table, "H1", i, <<10 + i>>, k) :
        i \in 0 .. Len(stake_table) - 1, k \in {"DA", "No", "Timeout"}}

\* A producer hands a vote to the driver.
deliver(v) ==
    /\ nappends + in_progress + Cardinality(inbox) < MaxAppends
    /\ v \notin inbox
    /\ inbox' = inbox \cup {v}
    /\ UNCHANGED <<holder, in_progress, in_call>>
    /\ UNCHANGED accvars
    /\ UNCHANGED netvars

\* The driver calls append with a delivered vote: the accumulator moves into
\* the call.
append_call(v) ==
    /\ v \in inbox
    /\ Owns(holder)
    /\ holder' = "call"
    /\ in_progress' = in_progress + 1
    /\ in_call' = v
    /\ inbox' = inbox \ {v}
    /\ UNCHANGED accvars
    /\ UNCHANGED netvars

\* The call ends: Either::Left hands the accumulator back, anything else
\* does not.
append_return(assemble_ok) ==
    /\ in_progress > 0
    /\ Apply(in_call, assemble_ok)
    /\ holder' = HolderAfter(result')
    /\ in_progress' = in_progress - 1
    /\ in_call' = NoVal
    /\ UNCHANGED inbox
    /\ UNCHANGED netvars

NextOwner ==
    \/ \E v \in OwnerVals : deliver(v)
    \/ \E v \in OwnerVals : append_call(v)
    \/ \E assemble_ok \in BOOLEAN : append_return(assemble_ok)

SpecOwner == InitOwner /\ [][NextOwner]_vars

----------------------------------------------------------------------------
\* Vocabulary of the properties

\* Accumulated stake of a subject in a VoteMap (0 when it has no entry).
Stake(m, commitment) == EntryOf(m, commitment).stake

\* At least one append call has been made.
Called == nappends > 0

Subject == val.commitment
Kind == val.vote_data.kind
Weight == vote_count(val.token)

\* The last call got past the tally updates of a supported vote.
Tallied == result.kind \in {"Left", "Right"} \/ result = Panic("assemble")

\* The last call returned (Collecting or a certificate).
Accepted == result.kind \in {"Left", "Right"}

\* The tallies of the last vote's subject after that vote's weight was added,
\* from the accumulator the call received.
AfterTotal == Stake(prev.total, Subject) + Weight
AfterDA == Stake(prev.da, Subject) + (IF Kind = "DA" THEN Weight ELSE 0)
AfterYes == Stake(prev.yes, Subject) + (IF Kind = "Yes" THEN Weight ELSE 0)
AfterNo == Stake(prev.no, Subject) + (IF Kind = "No" THEN Weight ELSE 0)

CategoryHolds ==
    \/ AfterDA >= success_threshold
    \/ AfterYes >= success_threshold
    \/ AfterNo >= failure_threshold

RECURSIVE SumCounts(_, _)
SumCounts(bag, set) ==
    IF set = {} THEN 0
    ELSE LET b == CHOOSE x \in set : TRUE
         IN  b.count * CopiesIn(b, bag) + SumCounts(bag, set \ {b})

\* Sum of token.vote_count() over the returned appends for a subject.
AppendedStake(commitment) ==
    SumCounts(votes, {b \in BagToSet(votes) : b.commitment = commitment})

NodeIds == {b.node_id : b \in BagToSet(votes)}

\* Every returned append came from another stake-table position.
DistinctSigners == BagCardinality(votes) = Cardinality(NodeIds)

OnesOf(bits) == {i \in DOMAIN bits : bits[i]}

----------------------------------------------------------------------------
\* C1 (threshold gate): an append returns a certificate only if the total
\* stake of the vote's subject, with this vote's weight added, has reached
\* success_threshold; a no tally at failure_threshold does not certify below it.
C1_ThresholdGate ==
    result.kind = "Right" => AfterTotal >= success_threshold

\* A vote was taken, the no tally of its subject meets failure_threshold, the
\* total is still below success_threshold, and the call returned Collecting.
C1_Witness ==
    /\ result.kind = "Left"
    /\ Stake(no_vote_outcomes, Subject) >= failure_threshold
    /\ Stake(total_vote_outcomes, Subject) < success_threshold

\* C2 (exclusivity and terminality): for every subject at most one append ever
\* returns a certificate, and after it no append for that subject returns a
\* certificate or Collecting.
C2_Exclusive ==
    \A c \in Commitments :
        LET certs == {i \in DOMAIN outcomes :
                        outcomes[i].commitment = c /\ outcomes[i].kind = "Right"}
        IN  /\ Cardinality(certs) <= 1
            /\ \A i \in certs, j \in DOMAIN outcomes :
                   (j > i /\ outcomes[j].commitment = c)
                       => outcomes[j].kind \notin {"Left", "Right"}

\* A certificate was returned while the call budget was not used up: the
\* instance is gone and takes no further vote.
C2_Witness ==
    /\ result.kind = "Right"
    /\ ~live
    /\ nappends < MaxAppends

\* C3 (priority DA > Yes > No): when the total has reached success_threshold
\* and aggregation succeeded, the result is the DA certificate if the da tally
\* reached success_threshold, else the Yes certificate if the yes tally did,
\* else the No certificate if the no tally reached failure_threshold.
C3_Priority ==
    (Accepted /\ AfterTotal >= success_threshold) =>
        /\ AfterDA >= success_threshold
               => (result.kind = "Right" /\ result.tag = "DA")
        /\ (AfterDA < success_threshold /\ AfterYes >= success_threshold)
               => (result.kind = "Right" /\ result.tag = "Yes")
        /\ (AfterDA < success_threshold /\ AfterYes < success_threshold
              /\ AfterNo >= failure_threshold)
               => (result.kind = "Right" /\ result.tag = "No")

\* The DA certificate was returned although the no tally had reached
\* failure_threshold as well.
C3_Witness ==
    /\ result.kind = "Right"
    /\ result.tag = "DA"
    /\ AfterNo >= failure_threshold

\* C4 (no missed certificate): when the total has reached success_threshold,
\* a category condition holds and aggregation succeeded, the append returns a
\* certificate; with Yes votes only, from distinct signers on one subject, the
\* calls return Collecting below success_threshold and the Yes certificate on
\* reaching it.
C4_NoMissedCertificate ==
    /\ (Tallied /\ result # Panic("assemble")
          /\ AfterTotal >= success_threshold /\ CategoryHolds)
           => result.kind = "Right"
    /\ (/\ Accepted
        /\ DistinctSigners
        /\ \A b \in BagToSet(votes) : b.kind = "Yes" /\ b.commitment = Subject)
           => IF AppendedStake(Subject) < success_threshold
              THEN result.kind = "Left"
              ELSE result.kind = "Right" /\ result.tag = "Yes"

\* Signers 0, 1 and 2 of the equal-weight table voted Yes: the third append
\* returned the Yes certificate.
C4_Witness ==
    /\ nappends = 3
    /\ result.kind = "Right"
    /\ result.tag = "Yes"
    /\ BagCardinality(votes) = 3
    /\ NodeIds = {0, 1, 2}
    /\ \A b \in BagToSet(votes) : b.kind = "Yes"

\* C5 (split votes keep collecting): when the total has reached
\* success_threshold, no category condition holds and aggregation succeeded,
\* the append returns Collecting and the accumulator holds every earlier entry
\* and the vote just appended; an append made in such a state that brings its
\* category to its threshold returns that category's certificate.
C5_SplitKeepsCollecting ==
    /\ (Tallied /\ result # Panic("assemble")
          /\ AfterTotal >= success_threshold /\ ~CategoryHolds) =>
           /\ result.kind = "Left"
           /\ live
           /\ Stake(total_vote_outcomes, Subject) = AfterTotal
           /\ Stake(da_vote_outcomes, Subject) = AfterDA
           /\ Stake(yes_vote_outcomes, Subject) = AfterYes
           /\ Stake(no_vote_outcomes, Subject) = AfterNo
           /\ val.key \in DOMAIN total_vote_outcomes[Subject].map
           /\ \A c \in Commitments \ {Subject} :
                  /\ EntryOf(total_vote_outcomes, c) = EntryOf(prev.total, c)
                  /\ EntryOf(da_vote_outcomes, c) = EntryOf(prev.da, c)
                  /\ EntryOf(yes_vote_outcomes, c) = EntryOf(prev.yes, c)
                  /\ EntryOf(no_vote_outcomes, c) = EntryOf(prev.no, c)
           /\ DOMAIN EntryOf(prev.total, Subject).map
                  \subseteq DOMAIN total_vote_outcomes[Subject].map
           /\ signers[val.node_id]
           /\ OnesOf(prev.signers) \subseteq OnesOf(signers)
           /\ sig_lists = Append(prev.sig_lists, deserialize(val.sig).sig)
    /\ (Tallied /\ result # Panic("assemble")
          /\ Stake(prev.total, Subject) >= success_threshold) =>
           /\ (Kind = "DA" /\ AfterDA >= success_threshold)
                  => (result.kind = "Right" /\ result.tag = "DA")
           /\ (Kind = "Yes" /\ AfterYes >= success_threshold)
                  => (result.kind = "Right" /\ result.tag = "Yes")
           /\ (Kind = "No" /\ AfterNo >= failure_threshold)
                  => (result.kind = "Right" /\ result.tag = "No")

\* Two Yes votes and two No votes of four signers: the accumulator that took
\* the fourth vote held total 3, yes 2 and no 1 (the third append returned
\* Collecting), and the fourth append returned the No certificate.
C5_Witness ==
    /\ nappends = 4
    /\ DistinctSigners
    /\ Stake(prev.total, "H1") = 3
    /\ Stake(prev.yes, "H1") = 2
    /\ Stake(prev.no, "H1") = 1
    /\ outcomes[3].kind = "Left"
    /\ result.kind = "Right"
    /\ result.tag = "No"

\* C6 (monotonic stake): in every Collecting state the total stake stored for
\* a subject is the sum of vote_count() over the votes appended for it, and it
\* is not below what the previous accumulator held.
C6_MonotonicStake ==
    live => \A c \in Commitments :
                /\ Stake(total_vote_outcomes, c) = AppendedStake(c)
                /\ Stake(total_vote_outcomes, c) >= Stake(prev.total, c)

\* A Collecting state in which a subject that already held stake got more.
C6_Witness ==
    /\ live
    /\ \E c \in Commitments :
           /\ Stake(prev.total, c) > 0
           /\ Stake(total_vote_outcomes, c) > Stake(prev.total, c)

\* C7 (bitmask correctness): after N returned appends from N distinct
\* stake-table positions exactly N bits of the signer bitmask are set, and
\* they are the node_id positions of those signers.
C7_Bitmask ==
    ((Accepted \/ ~Called) /\ DistinctSigners) =>
        /\ CountOnes(signers) = BagCardinality(votes)
        /\ OnesOf(signers) = NodeIds

\* Four appends from the four signers of the table.
C7_Witness ==
    /\ Accepted
    /\ DistinctSigners
    /\ BagCardinality(votes) = 4

\* C8 (malformed share): an append whose share does not deserialize ends in
\* the deserialization failure, returns neither Collecting nor a certificate,
\* and leaves every map, the bitmask and the signature list as they were.
C8_MalformedShare ==
    (Called /\ val.sig = <<>>) =>
        /\ result = Panic("deserialize")
        /\ ~live
        /\ Self = prev

\* A malformed share was offered for a subject that already held stake.
C8_Witness ==
    /\ Called
    /\ val.sig = <<>>
    /\ result = Panic("deserialize")
    /\ Stake(total_vote_outcomes, Subject) > 0

\* C9 (aggregation failure): an append whose assemble call returns an error
\* ends in that failure and returns no certificate; a certificate is returned
\* only with the Ok value of the one assemble call of the same append.
C9_AggregationFailure ==
    /\ (\E i \in DOMAIN assemble_calls : ~assemble_calls[i].ret.ok)
           => (result = Panic("assemble") /\ ~live)
    /\ result.kind = "Right" =>
           /\ Len(assemble_calls) = 1
           /\ assemble_calls[1].ret.ok
           /\ result.qc = assemble_calls[1].ret

\* assemble failed in an append after which a category condition held.
C9_Witness ==
    /\ result = Panic("assemble")
    /\ CategoryHolds
    /\ Len(assemble_calls) = 1

\* C10 (unsupported categories): an append of a Timeout or ViewSync vote ends
\* in a failure, never in Collecting or a certificate, and every accumulator
\* the caller still holds has, for each subject, a total tally equal to the
\* sum of its category tallies.
C10_Unsupported ==
    /\ (Called /\ Kind \in {"Timeout", "ViewSync"})
           => (result.kind = "Panic" /\ ~live)
    /\ live => \A c \in Commitments :
                   Stake(total_vote_outcomes, c) =
                       Stake(da_vote_outcomes, c) + Stake(yes_vote_outcomes, c)
                           + Stake(no_vote_outcomes, c)

\* A well-formed Timeout vote reached the unimplemented arm: its weight is in
\* the total tally only, and the accumulator is gone.
C10_Witness ==
    /\ Kind = "Timeout"
    /\ result = Panic("unimplemented")
    /\ Stake(total_vote_outcomes, Subject) >
           Stake(da_vote_outcomes, Subject) + Stake(yes_vote_outcomes, Subject)
               + Stake(no_vote_outcomes, Subject)
    /\ ~live

\* The category map of the accumulator acc that takes votes of the kind k.
KindMap(acc, k) ==
    IF k = "DA" THEN acc.da ELSE IF k = "Yes" THEN acc.yes ELSE acc.no

\* The last vote repeats its signer: the accumulator it was appended to held
\* an entry of the same key for the same subject in the map of the same kind.
Revote ==
    /\ Tallied
    /\ val.key \in DOMAIN EntryOf(KindMap(prev, Kind), Subject).map

\* C11 (no stake deduplication): a vote of a signer key that already voted in
\* the same category for the same subject is processed like any other: the
\* total and the category stake grow by the token weight again, while the
\* per-signer maps keep one entry for the key, holding the last signature.
C11_NoDeduplication ==
    /\ (/\ Called
        /\ val.sig # <<>>
        /\ val.node_id \in DOMAIN signers
        /\ Kind \in {"DA", "Yes", "No"}
        /\ val.key \in DOMAIN EntryOf(KindMap(prev, Kind), Subject).map)
           => (Tallied /\ (result.kind = "Panic" => assemble_calls # <<>>))
    /\ Revote =>
           \A m \in {<<Self.total, prev.total>>,
                     <<KindMap(Self, Kind), KindMap(prev, Kind)>>} :
               Subject \in DOMAIN m[1] =>
                   /\ m[1][Subject].stake = Stake(m[2], Subject) + Weight
                   /\ DOMAIN m[1][Subject].map = DOMAIN m[2][Subject].map
                   /\ m[1][Subject].map[val.key].sig = val.sig

\* Scenario D: the same signer appended two Yes votes for one subject with
\* two different signatures; the stake counts the weight twice and the maps
\* hold the second signature under the one key.
C11_Witness ==
    /\ nappends = 2
    /\ Revote
    /\ Kind = "Yes"
    /\ result.kind = "Left"
    /\ prev.yes[Subject].map[val.key].sig # val.sig
    /\ Stake(total_vote_outcomes, Subject) = 2 * Weight
    /\ Stake(yes_vote_outcomes, Subject) = 2 * Weight
    /\ DOMAIN yes_vote_outcomes[Subject].map = {val.key}
    /\ yes_vote_outcomes[Subject].map[val.key].sig = val.sig

RECURSIVE SumShares(_, _)
SumShares(bag, set) ==
    IF set = {} THEN 0
    ELSE LET b == CHOOSE x \in set : TRUE
         IN  deserialize(b.sig).sig * CopiesIn(b, bag) + SumShares(bag, set \ {b})

\* The sum of the shares of the returned appends: a function of the set of
\* votes appended, whatever their arrival order.
AppendedShares == SumShares(votes, BagToSet(votes))

\* C12 (order-invariance of aggregation): the aggregate signature of a
\* certificate produced from votes of distinct signers for one subject is
\* determined by the set of votes appended (the sum of their shares, and the
\* bitmask of their positions), so two arrival orders of one set agree.
C12_OrderInvariant ==
    (/\ result.kind = "Right"
     /\ DistinctSigners
     /\ \A b \in BagToSet(votes) : b.commitment = Subject) =>
        /\ result.qc.ok
        /\ result.qc.sig = AppendedShares
        /\ OnesOf(result.qc.signers) = NodeIds

\* A certificate over three or more votes that did not arrive in the order
\* of their stake-table positions.
C12_Witness ==
    /\ result.kind = "Right"
    /\ DistinctSigners
    /\ Len(sig_lists) >= 3
    /\ sig_lists[1] > sig_lists[2]
    /\ result.qc.sig = AppendedShares

\* C16 (aggregation gated, attempted once): an append that updates the
\* tallies calls assemble not at all when the total of the vote's subject is
\* below success_threshold and exactly once when it has reached it; an append
\* that fails before the tallies calls it not at all; a certificate carries
\* the value of that one call.
C16_AssembleOnce ==
    /\ (Called /\ ~Tallied) => assemble_calls = <<>>
    /\ Tallied =>
           Len(assemble_calls) = (IF AfterTotal >= success_threshold THEN 1 ELSE 0)
    /\ result.kind = "Right" => result.qc = assemble_calls[1].ret

\* The total had reached success_threshold and no category its threshold:
\* three category tests, one assemble call, Collecting returned.
C16_Witness ==
    /\ result.kind = "Left"
    /\ AfterTotal >= success_threshold
    /\ Len(assemble_calls) = 1

\* C17 (aggregation inputs): every assemble call is given the whole signer
\* bitmask and the whole signature list, that is the bit and the share of
\* every vote this accumulator has taken, of any subject and kind, in arrival
\* order, with the stake-table entries of the triggering vote and
\* success_threshold as the threshold.
C17_AssembleInputs ==
    \A i \in DOMAIN assemble_calls :
        LET call == assemble_calls[i] IN
        /\ call.signers = signers
        /\ call.sigs = sig_lists
        /\ call.sigs = Append(prev.sig_lists, deserialize(val.sig).sig)
        /\ Len(call.sigs) = nappends
        /\ OnesOf(call.signers) = OnesOf(prev.signers) \cup {val.node_id}
        /\ call.qc_pp.stake_entries = val.entries
        /\ call.qc_pp.threshold = success_threshold

\* assemble was called for one subject with the share of a vote for the
\* other subject in the list.
C17_Witness ==
    /\ Len(assemble_calls) = 1
    /\ \E b \in BagToSet(votes) : b.commitment # Subject
    /\ Len(assemble_calls[1].sigs) = nappends
    /\ nappends >= 2

\* C18 (signature list matches the bitmask by count), as claimed: in every
\* reachable state the number of signatures in sig_lists equals the number
\* of set bits of signers, also when a signer index appears more than once.
C18_Original ==
    Len(sig_lists) = CountOnes(signers)

\* C19 (certificate soundness per category): the DA certificate is returned
\* only with the da tally of the vote's subject at success_threshold; the Yes
\* certificate only with the yes tally there and the da tally below; the No
\* certificate only with the no tally at failure_threshold and the da and yes
\* tallies below success_threshold.
C19_Soundness ==
    result.kind = "Right" =>
        /\ result.tag \in {"DA", "Yes", "No"}
        /\ result.tag = "DA" => AfterDA >= success_threshold
        /\ result.tag = "Yes" =>
               (AfterYes >= success_threshold /\ AfterDA < success_threshold)
        /\ result.tag = "No" =>
               /\ AfterNo >= failure_threshold
               /\ AfterDA < success_threshold
               /\ AfterYes < success_threshold

\* A certificate for one subject while the other subject holds a no tally at
\* failure_threshold.
C19_Witness ==
    /\ result.kind = "Right"
    /\ result.tag = "Yes"
    /\ \E c \in Commitments \ {Subject} :
           Stake(no_vote_outcomes, c) >= failure_threshold

\* C20 (certificate kind matches the triggering vote for DA and Yes): the DA
\* certificate is returned only by the append of a DA vote and the Yes
\* certificate only by the append of a Yes vote.
C20_TriggeringVote ==
    result.kind = "Right" =>
        /\ result.tag = "DA" => Kind = "DA"
        /\ result.tag = "Yes" => Kind = "Yes"

\* The Yes certificate returned on a Yes vote for a subject that also held
\* stake of other kinds.
C20_Witness ==
    /\ result.kind = "Right"
    /\ result.tag = "Yes"
    /\ Kind = "Yes"
    /\ Stake(prev.total, Subject) > Stake(prev.yes, Subject)

----------------------------------------------------------------------------
\* PushCdnNetwork: vocabulary of the properties

\* The last call that returned is a send operation.
SendReturned == net_op.name \in SendOps

\* The last call that returned read is_paused between a pause() and the
\* next resume().
WhilePaused == net_op.toggle = "pause"

\* Serialization of the message of the last call succeeds.
Serializable == Serialize(VERSION_0_1, net_op.message).ok

\* C13: a PushCdnNetwork starts unpaused; the flag is whatever the last of
\* pause() / resume() set, however often each was called; a send operation
\* called between a pause() and the next resume() returns Ok(()) and hands
\* nothing to the client, and no such call is ever waiting on the client;
\* a send operation called at any other time hands its message over
\* whenever the message serializes.
C13_PauseStopsSending ==
    /\ nops = 0 => ~is_paused
    /\ is_paused <=> last_toggle = "pause"
    /\ send_pending # NoOp => send_pending.toggle # "pause"
    /\ SendReturned =>
           IF WhilePaused
           THEN net_result = NetOk(<<>>) /\ net_op.handed = <<>>
           ELSE Serializable => Len(net_op.handed) = 1

\* A send was skipped under pause, and a send called after the following
\* resume() handed its message to the client and returned Ok(()).
C13_Witness ==
    /\ SendReturned
    /\ nskipped >= 1
    /\ net_op.toggle = "resume"
    /\ Len(net_op.handed) = 1
    /\ net_result = NetOk(<<>>)

\* C14: a recv_msgs call that reads is_paused between a pause() and the next
\* resume() returns Ok(vec![]) whatever the client gave it, and the message
\* it took is gone: it is not the one a running call holds and no recv_msgs
\* call ever returns it.
C14_PauseStopsReceiving ==
    /\ net_op.name = "recv_msgs" /\ WhilePaused =>
           /\ net_result = NetOk(<<>>)
           /\ net_op.item.id \in dropped
    /\ dropped \cap delivered = {}
    /\ recv_pending.id \notin dropped \cup delivered

\* A message was taken and discarded under pause; after resume() a later
\* recv_msgs call returned the next message of the client.
C14_Witness ==
    /\ net_op.name = "recv_msgs"
    /\ net_op.toggle = "resume"
    /\ net_result.msgs = <<"m1">>
    /\ \E d \in dropped : d < net_op.item.id

\* C15: a send operation makes at most one call on the client; an unpaused
\* call whose message serializes makes exactly one, carrying the serialized
\* message, and returns Ok(()) if the client accepts it and CouldNotDeliver
\* if the client fails; an unpaused call whose message does not serialize
\* returns FailedToSerialize and makes none; broadcast_message publishes to
\* the topic list [Global] and da_broadcast_message to [DA], whatever the
\* recipients set.
C15_TopicRouting ==
    SendReturned =>
        /\ Len(net_op.handed) <= 1
        /\ ~WhilePaused /\ Serializable =>
               /\ Len(net_op.handed) = 1
               /\ net_op.handed[1].bytes =
                      Serialize(VERSION_0_1, net_op.message).bytes
               /\ net_op.handed[1].ret = "Ok" => net_result = NetOk(<<>>)
               /\ net_op.handed[1].ret = "Err" =>
                      net_result = NetErr("CouldNotDeliver")
               /\ net_op.handed[1].ret \in {"Ok", "Err"}
        /\ ~WhilePaused /\ ~Serializable =>
               /\ net_result = NetErr("FailedToSerialize")
               /\ net_op.handed = <<>>
        /\ net_op.handed # <<>> /\ net_op.name = "broadcast_message" =>
               /\ net_op.handed[1].fn = "send_broadcast_message"
               /\ net_op.handed[1].topics = <<"Global">>
        /\ net_op.handed # <<>> /\ net_op.name = "da_broadcast_message" =>
               /\ net_op.handed[1].fn = "send_broadcast_message"
               /\ net_op.handed[1].topics = <<"DA">>

\* da_broadcast_message was called with a recipients set that names a key,
\* and the client accepted one message for the DA topic.
C15_Witness ==
    /\ net_op.name = "da_broadcast_message"
    /\ net_op.recipients = {"k1"}
    /\ Len(net_op.handed) = 1
    /\ net_op.handed[1].topics = <<"DA">>
    /\ net_result = NetOk(<<>>)

----------------------------------------------------------------------------
\* The accumulator: frame conditions

\* The vote kinds that have a category map, without the kind k.
OtherKinds(k) == {"DA", "Yes", "No"} \ {k}

\* The entry a vote leaves under its key in a signer map.
SignerEntry == [sig |-> val.sig, vote_data |-> val.vote_data, token |-> val.token]

\* The map now holds, where it still has the last vote's subject, that vote
\* added to what the map before held: the weight on the stake, the signer
\* entry under the vote's key, every other signer entry as it was.
VoteAdded(now, before) ==
    Subject \in DOMAIN now =>
        /\ now[Subject].stake = Stake(before, Subject) + Weight
        /\ DOMAIN now[Subject].map =
               DOMAIN EntryOf(before, Subject).map \cup {val.key}
        /\ \A k \in DOMAIN now[Subject].map :
               now[Subject].map[k] =
                   IF k = val.key THEN SignerEntry
                   ELSE EntryOf(before, Subject).map[k]

\* The statement of C21 as made: the two other category maps are the maps
\* they were, subject keys included.
C21_Original ==
    (Accepted /\ Kind \in {"DA", "Yes", "No"}) =>
        /\ VoteAdded(Self.total, prev.total)
        /\ VoteAdded(KindMap(Self, Kind), KindMap(prev, Kind))
        /\ \A k \in OtherKinds(Kind) : KindMap(Self, k) = KindMap(prev, k)

\* C21 (one category map per vote), amended: a returned append of a DA, Yes
\* or No vote for a subject adds the weight and the signer entry to the
\* total map and to the map of the vote's kind; each of the two other
\* category maps keeps every weight and every signer entry, and changes only
\* in gaining an entry of weight 0 without signers for the subject when it
\* had none.
C21_OneCategoryMap ==
    (Accepted /\ Kind \in {"DA", "Yes", "No"}) =>
        /\ VoteAdded(Self.total, prev.total)
        /\ VoteAdded(KindMap(Self, Kind), KindMap(prev, Kind))
        /\ \A k \in OtherKinds(Kind) :
               /\ DOMAIN KindMap(Self, k) =
                      DOMAIN KindMap(prev, k) \cup {Subject}
               /\ \A c \in DOMAIN KindMap(Self, k) :
                      KindMap(Self, k)[c] = EntryOf(KindMap(prev, k), c)

\* The first vote for a subject, a Yes vote, came back Collecting: the da and
\* no maps, which had no entry for it, now hold the empty entry, and the da
\* entry of the other subject, which holds a DA vote, is as it was.
C21_Witness ==
    /\ result.kind = "Left"
    /\ Kind = "Yes"
    /\ Subject \notin DOMAIN prev.da \cup DOMAIN prev.no
    /\ da_vote_outcomes[Subject] = NewEntry
    /\ no_vote_outcomes[Subject] = NewEntry
    /\ Stake(yes_vote_outcomes, Subject) = Weight
    /\ \E c \in Commitments \ {Subject} :
           /\ Stake(prev.da, c) > 0
           /\ da_vote_outcomes[c] = prev.da[c]

\* Sum of token.vote_count() over the returned appends of kind k for a subject.
AppendedKindStake(commitment, k) ==
    SumCounts(votes, {b \in BagToSet(votes) :
                         b.commitment = commitment /\ b.kind = k})

\* The four VoteMaps of an accumulator.
FourMaps(acc) == <<acc.total, acc.da, acc.yes, acc.no>>

\* C22 (subjects are tallied independently): whatever the outcome of an
\* append, each of the four maps has the entry of every other subject exactly
\* as before (present or absent, weight, signer map); and a returned append
\* passed the gate on the total exactly when the stake appended for its own
\* subject reached success_threshold, and returned a certificate only when
\* the stake appended for its own subject in the certificate's category
\* reached that category's threshold.
C22_SubjectsIndependent ==
    /\ \A c \in Commitments \ {Subject}, i \in 1 .. 4 :
           /\ c \in DOMAIN FourMaps(Self)[i] <=> c \in DOMAIN FourMaps(prev)[i]
           /\ EntryOf(FourMaps(Self)[i], c) = EntryOf(FourMaps(prev)[i], c)
    /\ Accepted =>
           /\ assemble_calls # <<>> <=>
                  AppendedStake(Subject) >= success_threshold
           /\ result.kind = "Right" =>
                  AppendedKindStake(Subject, result.tag) >=
                      (IF result.tag = "No" THEN failure_threshold
                       ELSE success_threshold)

\* The other subject holds stake that, added to the stake of the vote's
\* subject, would reach success_threshold; the vote's subject alone does not,
\* and the append came back Collecting without an aggregation.
C22_Witness ==
    /\ result.kind = "Left"
    /\ assemble_calls = <<>>
    /\ \E c \in Commitments \ {Subject} :
           /\ Stake(total_vote_outcomes, c) > 0
           /\ total_vote_outcomes[c] = prev.total[c]
           /\ Stake(total_vote_outcomes, Subject) + Stake(total_vote_outcomes, c)
                  >= success_threshold
    /\ Stake(total_vote_outcomes, Subject) < success_threshold

\* The signer keys of a subject's entry in a VoteMap.
Keys(m, commitment) == DOMAIN EntryOf(m, commitment).map

\* C23 (tally consistency): in every Collecting state, for every subject
\* with an entry, the total stake is the sum of the da, yes and no stakes and
\* the signer keys of the total map are those of the da, yes and no maps
\* together.
C23_TallyConsistency ==
    live =>
        \A c \in DOMAIN total_vote_outcomes :
            /\ Stake(total_vote_outcomes, c) =
                     Stake(da_vote_outcomes, c) + Stake(yes_vote_outcomes, c)
                   + Stake(no_vote_outcomes, c)
            /\ Keys(total_vote_outcomes, c) =
                   Keys(da_vote_outcomes, c) \cup Keys(yes_vote_outcomes, c)
                       \cup Keys(no_vote_outcomes, c)

\* A Collecting state in which one subject holds DA stake and No stake, cast
\* by two signers.
C23_Witness ==
    /\ live
    /\ \E c \in Commitments :
           /\ Stake(da_vote_outcomes, c) > 0
           /\ Stake(no_vote_outcomes, c) > 0
           /\ Cardinality(Keys(total_vote_outcomes, c)) = 2

\* C24 (the signer bitmask only grows): an append never changes the length
\* of the bitmask and never clears a bit; a returned append leaves the
\* bitmask it received with the bit at the vote's node_id set and every
\* other bit as it was, hence unchanged when that bit was already set; and
\* the bit of every vote whose append returned is still set.
C24_BitmaskGrows ==
    /\ DOMAIN signers = DOMAIN prev.signers
    /\ DOMAIN signers = 0 .. Len(stake_table) - 1
    /\ \A i \in DOMAIN signers : prev.signers[i] => signers[i]
    /\ Accepted =>
           /\ signers = [prev.signers EXCEPT ![val.node_id] = TRUE]
           /\ prev.signers[val.node_id] => signers = prev.signers
           /\ \A i \in NodeIds : signers[i]

\* A re-vote: both bits were set when the signer at a set position voted
\* again, and the append came back with the same bitmask.
C24_Witness ==
    /\ Accepted
    /\ nappends = 3
    /\ prev.signers[val.node_id]
    /\ CountOnes(prev.signers) = 2
    /\ signers = prev.signers

\* The list a is the beginning of the list b.
IsPrefix(a, b) == Len(a) <= Len(b) /\ SubSeq(b, 1, Len(a)) = a

\* C25 (the signature list is append-only, in arrival order): no append
\* removes, reorders or replaces an element of the list it received; a
\* returned append leaves that list with exactly one element more, the
\* deserialized share of its vote, at the end; so the length of the list is
\* the number of appends that returned.
C25_SigListAppendOnly ==
    /\ IsPrefix(prev.sig_lists, sig_lists)
    /\ Accepted =>
           /\ sig_lists = prev.sig_lists \o <<deserialize(val.sig).sig>>
           /\ Len(sig_lists) = BagCardinality(votes)
    /\ live => Len(sig_lists) = nappends

\* Three appends returned, the shares arriving in the order 11, 10, 20: the
\* list holds them in that order.
C25_Witness ==
    /\ Accepted
    /\ sig_lists = <<11, 10, 20>>

----------------------------------------------------------------------------
\* The accumulator: ownership

\* C26 (single owner, sequential mutation): at most one append call on the
\* instance is in progress, and one is exactly while the accumulator is
\* inside a call; the calls end one after the other, each adding one outcome
\* to the sequence of outcomes; the driver holds the accumulator only after
\* construction or after a call returned Collecting; once a call returned a
\* certificate or failed the accumulator is gone, so every outcome but the
\* last is Collecting, whatever votes are still waiting.
C26_SingleOwner ==
    /\ in_progress <= 1
    /\ in_progress = 1 <=> holder = "call"
    /\ Len(outcomes) = nappends
    /\ holder \in {"driver", "call"} =>
           /\ live
           /\ Called => result.kind = "Left"
    /\ holder = "none" =>
           /\ ~live
           /\ result.kind \in {"Right", "Panic"}
    /\ \A i \in 1 .. Len(outcomes) - 1 : outcomes[i].kind = "Left"

\* Two calls ended, the second with a certificate; a delivered vote waits
\* and cannot be appended.
C26_Witness ==
    /\ nappends = 2
    /\ result.kind = "Right"
    /\ holder = "none"
    /\ inbox # {}

----------------------------------------------------------------------------
\* PushCdnNetwork: receiving

\* The last call that returned is a recv_msgs call that read is_paused
\* outside a pause.
RecvUnpaused == net_op.name = "recv_msgs" /\ ~WhilePaused

\* The item the client gave is a Broadcast or a Direct.
Carries == net_op.item.res = "Ok" /\ net_op.item.kind \in {"Broadcast", "Direct"}

\* The call returned the one message whose serialization under version 0.1
\* the payload is.
RoundTrip ==
    \E m \in Messages :
        /\ Serialize(<<0, 1>>, m).ok
        /\ net_op.item.payload = Serialize(<<0, 1>>, m).bytes
        /\ net_result = NetOk(<<m>>)

\* C27 (receive is version-gated): an unpaused recv_msgs call returns at most
\* one message; it returns a message only for a Broadcast or Direct whose
\* payload has version 0.1, and then the message the payload serializes; it
\* returns FailedToDeserialize when the version cannot be read, is not 0.1,
\* or the body does not deserialize; FailedToReceive when the client's
\* receive failed; and the empty list for any other kind of message.
C27_VersionGated ==
    RecvUnpaused =>
        /\ Len(net_result.msgs) <= 1
        /\ net_result.msgs # <<>> =>
               /\ Carries
               /\ net_op.item.payload.version = <<0, 1>>
               /\ RoundTrip
        /\ net_op.item.res = "Err" =>
               net_result = NetErr("PushCdnNetwork::FailedToReceive")
        /\ (net_op.item.res = "Ok" /\ ~Carries) => net_result = NetOk(<<>>)
        /\ (Carries /\ net_op.item.payload.version # <<0, 1>>) =>
               net_result = NetErr("FailedToDeserialize")
        /\ (Carries /\ net_op.item.payload.version = <<0, 1>>) =>
               IF net_op.item.payload.body = <<"bincode", "m1">>
               THEN net_result = NetOk(<<"m1">>)
               ELSE net_result = NetErr("FailedToDeserialize")

\* An unpaused recv_msgs call took a Broadcast whose payload is a message
\* serialized under version 0.2 and returned FailedToDeserialize.
C27_Witness ==
    /\ RecvUnpaused
    /\ net_op.item.kind = "Broadcast"
    /\ net_op.item.payload = Serialize(<<0, 2>>, "m1").bytes
    /\ net_result = NetErr("FailedToDeserialize")

----------------------------------------------------------------------------
\* The accumulator: entries removed on certification

MapNames == {"total", "da", "yes", "no"}

\* The maps that no longer hold the entry of the last vote's subject when
\* the call has ended.  Every returned append created or found that entry in
\* each of the four maps, so a map without it had it removed.
RemovedFrom == {n \in MapNames : Subject \notin DOMAIN Self[n]}

\* No map lost the entry of a subject other than the last vote's.
OthersKept ==
    \A n \in MapNames : DOMAIN prev[n] \ {Subject} \subseteq DOMAIN Self[n]

\* The statement of C28 as made: the Yes certificate removes no entry.
C28_Original ==
    Accepted =>
        /\ OthersKept
        /\ result.tag = "DA" => RemovedFrom = {"da"}
        /\ result.tag = "Yes" => RemovedFrom = {}
        /\ result.tag = "No" => RemovedFrom = {"total"}
        /\ result.kind = "Left" => RemovedFrom = {}

\* C28 (entries removed on certification), amended: an append that returns
\* the DA certificate removes the subject's entry from the da map only; one
\* that returns the Yes certificate removes it from the yes map only; one
\* that returns the No certificate removes it from the total map only; one
\* that returns Collecting removes no entry; and no entry of another subject
\* is ever removed.
C28_RemovedOnCertification ==
    Accepted =>
        /\ OthersKept
        /\ result.tag = "DA" => RemovedFrom = {"da"}
        /\ result.tag = "Yes" => RemovedFrom = {"yes"}
        /\ result.tag = "No" => RemovedFrom = {"total"}
        /\ result.kind = "Left" => RemovedFrom = {}

\* An append returned the Yes certificate: the yes map, which held the
\* subject's entry, has lost it, and the three other maps hold theirs.
C28_Witness ==
    /\ result.kind = "Right"
    /\ result.tag = "Yes"
    /\ Subject \in DOMAIN prev.yes
    /\ Subject \notin DOMAIN yes_vote_outcomes
    /\ Subject \in DOMAIN total_vote_outcomes
    /\ Subject \in DOMAIN da_vote_outcomes
    /\ Subject \in DOMAIN no_vote_outcomes

====
